---- MODULE Spec2Model ----
(***************************************************************************)
(* Model of the GameFiDApp ledger contract                                 *)
(* (src/OX/projects/OX-contracts/smart_contracts/hello_world/contract.py). *)
(*                                                                         *)
(* Every ABI method is one action.  A method body is evaluated on an       *)
(* evaluation record e = [ok, boxes, gs, app_algo, itxns] that is threaded *)
(* through the statements in source order; a failed assert, an op.revert,  *)
(* a uint64 overflow/underflow or a rejected inner transaction clears      *)
(* e.ok.  The AVM then discards every write of the call (Outcome).         *)
(* The variable receipt keeps the call that was just evaluated together    *)
(* with the state it started from; Confirm clears it before the next call. *)
(*                                                                         *)
(* Three specifications share the actions:                                 *)
(*   Spec        the application from its deployment, MaxCalls calls deep; *)
(*   SpecInUse   one call of any method on a deployment in use;            *)
(*   SpecStaking two staking calls in a row on a deployment in use;        *)
(*   SpecSwap    two simulated swaps in a row on a deployment in use.      *)
(***************************************************************************)
EXTENDS Integers, Sequences, FiniteSets, TLC

VARIABLES
    boxes,              \* Box storage: player address -> PlayerState
    gs,                 \* the contract's GlobalState values
    app_algo,           \* microALGO held by the application account
    latest_timestamp,   \* Global.latest_timestamp() of the current block
    budget,             \* application calls the behaviour may still make
    receipt,            \* the call just evaluated, or NoReceipt
    last_stake,         \* the latest call, if it was a successful stake or unstake
    last_swap           \* the latest call, if it was a successful simulated swap

vars == <<boxes, gs, app_algo, latest_timestamp, budget, receipt, last_stake, last_swap>>

---------------------------------------------------------------------------
(* Bounds of the model.                                                    *)

\* Largest amount argument of a deposit, withdrawal, stake or unstake.
MaxAmount == 2
\* Largest MINT balance and stake of a deployment in use.
MaxBalance == 2
\* Block timestamps are k * TimeStep + j * LongStep seconds, k in 0..MaxTicks
\* and j in 0..1: short waits, where a reward is a few units and its floor
\* shows, and one long wait, where staked * rate * elapsed overflows.
MaxTicks == 2
TimeStep == 500000
LongStep == 500000000
\* Number of application calls Spec follows from the deployment.
MaxCalls == 2
\* Largest value of the unsigned machine integer.  The AVM's is 2^64 - 1;
\* TLC's integers are 32 bits wide, so the width is scaled down and every
\* product is tested for overflow by division, never by multiplying.
UInt64Max == 1000000000

---------------------------------------------------------------------------
(* Program constants.                                                      *)

InitialSpotPrice == 1000
InitialMintPrice == 10000
InitialRewardRate == 1
RewardScale == 1000000
PrizeMultiplier == 1000
FeeDivisor == 10
\* microALGO the deployment script sends to the new application account.
DeployFunding == 1000000

Addr == {"p1", "p2"}
\* Global.creator_address(): the account that deployed the application.
Creator == "p1"
\* Global.current_application_address().
AppAddr == "app"
NoAddr == "none"

\* Ids the host gives to the assets the application creates, and the token
\* ids callers pass (0: no asset).
AssetIds == {1, 2}
TokenIds == {0, 1, 2}
\* The ids the host may give to an achievement NFT.
NftIds == {3}
Amounts == 0..MaxAmount
\* Receivers of the payment grouped with a deposit call.
Receivers == {AppAddr, "p2"}
Prizes == {1, 10}
SwapAmounts == {0, 1, 10, 15}
Times == {k * TimeStep + j * LongStep : k \in 0..MaxTicks, j \in 0..1}

---------------------------------------------------------------------------
(* Data structures.                                                        *)

ZeroState ==
    [algo_balance |-> 0, mint_balance |-> 0, spot_balance |-> 0,
     staked_mint |-> 0, staked_spot |-> 0, nfts_owned |-> 0,
     last_stake_timestamp |-> 0]

EmptyBoxes == [a \in {} |-> ZeroState]

get_player_state(bx, a) == IF a \in DOMAIN bx THEN bx[a] ELSE ZeroState

BoxPut(bx, a, ps) ==
    [x \in (DOMAIN bx) \cup {a} |-> IF x = a THEN ps ELSE bx[x]]

(* AVM uint64 arithmetic: +, - and * fail the program instead of wrapping. *)
AddOverflows(a, b) == a + b > UInt64Max
SubUnderflows(a, b) == b > a
MulOverflows(a, b) == b # 0 /\ a > UInt64Max \div b
DivPanics(a, b) == b = 0

---------------------------------------------------------------------------
(* Evaluation of one application call.                                     *)

Start ==
    [ok |-> TRUE, boxes |-> boxes, gs |-> gs, app_algo |-> app_algo,
     itxns |-> << >>]

\* op.assert_transaction(FALSE), op.revert(...), or an arithmetic panic.
Revert(e) == [e EXCEPT !.ok = FALSE]

\* Faulty variant of Outcome: a failed call keeps its partial writes.
OutcomeNoRollback(pre, e) == e

\* The AVM applies a call's writes and inner transactions only if the whole
\* program succeeds; a failed call changes nothing.
Outcome(pre, e) ==
    IF e.ok THEN e ELSE [pre EXCEPT !.ok = FALSE]

\* itxn.Payment(...).submit().  reject = n: the host rejects the n-th inner
\* transaction of this call (0: none).  A payment the application account
\* cannot fund is always rejected.  With close_to set, the host also sends
\* the whole remaining balance of the application account to close_to.
SubmitPayment(e, receiver, amount, close_to, reject) ==
    IF ~e.ok THEN e
    ELSE IF Len(e.itxns) + 1 = reject \/ e.app_algo < amount THEN Revert(e)
    ELSE LET remainder == IF close_to = NoAddr THEN 0 ELSE e.app_algo - amount
         IN [e EXCEPT
               !.app_algo = @ - amount - remainder,
               !.itxns = Append(@, [type |-> "pay", receiver |-> receiver,
                                    asset_id |-> 0, amount |-> amount,
                                    close_to |-> close_to,
                                    close_amount |-> remainder])]

\* itxn.AssetTransfer(...).submit().
SubmitAssetTransfer(e, asset_id, receiver, amount, reject) ==
    IF ~e.ok THEN e
    ELSE IF Len(e.itxns) + 1 = reject THEN Revert(e)
    ELSE [e EXCEPT
            !.itxns = Append(@, [type |-> "axfer", receiver |-> receiver,
                                 asset_id |-> asset_id, amount |-> amount,
                                 close_to |-> NoAddr, close_amount |-> 0])]

\* itxn.ApplicationCall(...).submit().
SubmitApplicationCall(e, app_id, reject) ==
    IF ~e.ok THEN e
    ELSE IF Len(e.itxns) + 1 = reject THEN Revert(e)
    ELSE [e EXCEPT
            !.itxns = Append(@, [type |-> "appl", receiver |-> NoAddr,
                                 asset_id |-> app_id, amount |-> 0,
                                 close_to |-> NoAddr, close_amount |-> 0])]

\* itxn.AssetConfig(...).submit(): the host creates an asset and names it
\* new_id (op.InnerTransaction.asset_id()).
SubmitAssetConfig(e, new_id, reject) ==
    IF ~e.ok THEN e
    ELSE IF Len(e.itxns) + 1 = reject THEN Revert(e)
    ELSE [e EXCEPT
            !.itxns = Append(@, [type |-> "acfg", receiver |-> AppAddr,
                                 asset_id |-> new_id, amount |-> 0,
                                 close_to |-> NoAddr, close_amount |-> 0])]

---------------------------------------------------------------------------
(* Initialization.                                                         *)

app_create(e, oracle_addr, tinyman_validator_id, mint_algo_pool_id, spot_mint_pool_id) ==
    [e EXCEPT !.gs = [@ EXCEPT
        !.oracle_address = oracle_addr,
        !.tinyman_validator_app_id = tinyman_validator_id,
        !.mint_algo_pool_app_id = mint_algo_pool_id,
        !.spot_mint_pool_app_id = spot_mint_pool_id,
        !.spot_price_algo = InitialSpotPrice,
        !.mint_price_algo = InitialMintPrice,
        !.game_fees_treasury_algo = 0,
        !.game_fees_treasury_mint = 0,
        !.game_fees_treasury_spot = 0,
        !.stake_reward_rate = InitialRewardRate]]

create_mint_token(e, sender, new_id, reject) ==
    IF e.gs.mint_token_asa # 0 THEN Revert(e)
    ELSE IF sender # Creator THEN Revert(e)
    ELSE LET e1 == SubmitAssetConfig(e, new_id, reject)
         IN IF ~e1.ok THEN e1
            ELSE [e1 EXCEPT !.gs.mint_token_asa = new_id]

create_spot_token(e, sender, new_id, reject) ==
    IF e.gs.spot_token_asa # 0 THEN Revert(e)
    ELSE IF sender # Creator THEN Revert(e)
    ELSE LET e1 == SubmitAssetConfig(e, new_id, reject)
         IN IF ~e1.ok THEN e1
            ELSE [e1 EXCEPT !.gs.spot_token_asa = new_id]

---------------------------------------------------------------------------
(* Wallet and balance management.                                          *)

\* The payment or asset transfer grouped with a deposit call: the host moves
\* the funds before the application call runs (and undoes it with the call).
GroupPayment(e, pay_receiver, pay_amount) ==
    IF pay_receiver = AppAddr THEN [e EXCEPT !.app_algo = @ + pay_amount] ELSE e

deposit_algo(e, sender, pay_receiver, pay_amount) ==
    IF pay_receiver # AppAddr THEN Revert(e)
    ELSE LET player_state == get_player_state(e.boxes, sender)
         IN IF AddOverflows(player_state.algo_balance, pay_amount)
            THEN Revert(e)
            ELSE [e EXCEPT
                   !.boxes = BoxPut(@, sender,
                       [player_state EXCEPT !.algo_balance = @ + pay_amount])]

\* Faulty variant of deposit_asa: a token that is neither MINT nor Spot is
\* booked as MINT.
deposit_asa_any_token(e, sender, pay_receiver, pay_asset, pay_amount, token_id) ==
    IF pay_receiver # AppAddr THEN Revert(e)
    ELSE IF pay_asset # token_id THEN Revert(e)
    ELSE LET player_state == get_player_state(e.boxes, sender)
         IN IF token_id = e.gs.spot_token_asa
            THEN [e EXCEPT
                   !.boxes = BoxPut(@, sender,
                     [player_state EXCEPT !.spot_balance = @ + pay_amount])]
            ELSE [e EXCEPT
                   !.boxes = BoxPut(@, sender,
                     [player_state EXCEPT !.mint_balance = @ + pay_amount])]

deposit_asa(e, sender, pay_receiver, pay_asset, pay_amount, token_id) ==
    IF pay_receiver # AppAddr THEN Revert(e)
    ELSE IF pay_asset # token_id THEN Revert(e)
    ELSE LET player_state == get_player_state(e.boxes, sender)
         IN IF token_id = e.gs.mint_token_asa
            THEN IF AddOverflows(player_state.mint_balance, pay_amount)
                 THEN Revert(e)
                 ELSE [e EXCEPT
                        !.boxes = BoxPut(@, sender,
                          [player_state EXCEPT !.mint_balance = @ + pay_amount])]
            ELSE IF token_id = e.gs.spot_token_asa
            THEN IF AddOverflows(player_state.spot_balance, pay_amount)
                 THEN Revert(e)
                 ELSE [e EXCEPT
                        !.boxes = BoxPut(@, sender,
                          [player_state EXCEPT !.spot_balance = @ + pay_amount])]
            ELSE Revert(e)

\* Faulty variant of withdraw_algo: no assert on algo_balance, and the
\* subtraction goes below zero.
withdraw_algo_unchecked(e, sender, amount, reject) ==
    LET player_state == get_player_state(e.boxes, sender)
        e1 == SubmitPayment(e, sender, amount, sender, reject)
    IN IF ~e1.ok THEN e1
       ELSE [e1 EXCEPT
              !.boxes = BoxPut(@, sender,
                  [player_state EXCEPT !.algo_balance = @ - amount])]

withdraw_algo(e, sender, amount, reject) ==
    LET player_state == get_player_state(e.boxes, sender)
    IN IF ~(player_state.algo_balance >= amount) THEN Revert(e)
       ELSE LET e1 == SubmitPayment(e, sender, amount, sender, reject)
            IN IF ~e1.ok THEN e1
               ELSE IF SubUnderflows(player_state.algo_balance, amount)
               THEN Revert(e1)
               ELSE [e1 EXCEPT
                      !.boxes = BoxPut(@, sender,
                          [player_state EXCEPT !.algo_balance = @ - amount])]

---------------------------------------------------------------------------
(* Game logic and escrow.                                                  *)

\* Every path of join_game ends in op.revert.
join_game(e, sender, entry_fee_asa_id, entry_fee_amount, game_id) == Revert(e)

\* Faulty variant of is_oracle: every caller passes.
is_anyone(e, sender) == TRUE

\* op.Txn.sender() == self.oracle_address.get()
is_oracle(e, sender) == sender = e.gs.oracle_address

\* Faulty variant of reward_amount: the prize is not scaled by 1000.
reward_amount_unscaled(prize_algo, price) == prize_algo \div price

\* (prize_algo * 1000) // price
reward_amount(prize_algo, price) == (prize_algo * PrizeMultiplier) \div price

\* Faulty variant of treasury_fee: the whole prize is booked as fee.
treasury_fee_whole(prize_algo) == prize_algo

\* prize_algo // 10
treasury_fee(prize_algo) == prize_algo \div FeeDivisor

resolve_game(e, sender, game_id, winner, loser, prize_algo, reject) ==
    IF ~is_oracle(e, sender) THEN Revert(e)
    ELSE
    LET \* 1. Payout the winner in ALGO.
        e1 == SubmitPayment(e, winner, prize_algo, NoAddr, reject)
        \* 2. Credit Spot tokens to the winner.
        spot_panics == \/ MulOverflows(prize_algo, PrizeMultiplier)
                       \/ DivPanics(prize_algo * PrizeMultiplier, e.gs.spot_price_algo)
        spot_reward_amount == reward_amount(prize_algo, e.gs.spot_price_algo)
        winner_state == get_player_state(e1.boxes, winner)
        e2 == IF ~e1.ok THEN e1
              ELSE IF spot_panics THEN Revert(e1)
              ELSE IF AddOverflows(winner_state.spot_balance, spot_reward_amount)
              THEN Revert(e1)
              ELSE [e1 EXCEPT !.boxes = BoxPut(@, winner,
                      [winner_state EXCEPT !.spot_balance = @ + spot_reward_amount])]
        \* 3. Send MINT tokens to the loser (an inner asset transfer; the
        \*    loser's box is not touched).
        mint_panics == \/ MulOverflows(prize_algo, PrizeMultiplier)
                       \/ DivPanics(prize_algo * PrizeMultiplier, e.gs.mint_price_algo)
        mint_reward_amount == reward_amount(prize_algo, e.gs.mint_price_algo)
        e3 == IF ~e2.ok THEN e2
              ELSE IF mint_panics THEN Revert(e2)
              ELSE SubmitAssetTransfer(e2, e.gs.mint_token_asa, loser,
                                       mint_reward_amount, reject)
        \* 4. Update the treasury with a portion of the fee.
        fee == treasury_fee(prize_algo)
    IN IF ~e3.ok THEN e3
       ELSE IF AddOverflows(e3.gs.game_fees_treasury_algo, fee) THEN Revert(e3)
       ELSE [e3 EXCEPT !.gs.game_fees_treasury_algo = @ + fee]

---------------------------------------------------------------------------
(* Staking system.                                                         *)

\* Faulty variant of time_staked_of: elapsed time counted from the epoch.
time_staked_since_epoch(now, player_state) == now

\* time_staked = Global.latest_timestamp() - last_stake_timestamp
time_staked_of(now, player_state) == now - player_state.last_stake_timestamp

\* Returns [e, value]: the evaluation after the reward transfer and the new
\* MINT balance.  now is Global.latest_timestamp().
_update_staking_rewards(e, player_address, player_state, now, reject) ==
    IF SubUnderflows(now, player_state.last_stake_timestamp)
    THEN [e |-> Revert(e), value |-> 0]
    ELSE
    LET time_staked == time_staked_of(now, player_state)
        rate == e.gs.stake_reward_rate
    IN IF player_state.staked_mint > 0 /\ time_staked > 0
       THEN IF \/ MulOverflows(player_state.staked_mint, rate)
               \/ MulOverflows(player_state.staked_mint * rate, time_staked)
            THEN [e |-> Revert(e), value |-> 0]
            ELSE
            LET rewards == (player_state.staked_mint * rate * time_staked)
                               \div RewardScale
                e1 == SubmitAssetTransfer(e, e.gs.mint_token_asa,
                                          player_address, rewards, reject)
            IN IF ~e1.ok THEN [e |-> e1, value |-> 0]
               ELSE IF AddOverflows(player_state.mint_balance, rewards)
               THEN [e |-> Revert(e1), value |-> 0]
               ELSE [e |-> e1, value |-> player_state.mint_balance + rewards]
       ELSE [e |-> e, value |-> player_state.mint_balance]

\* Faulty variant of stake_mint_tokens: the amount leaves mint_balance but
\* is not added to staked_mint.
stake_mint_tokens_keeps_stake(e, sender, amount, now, reject) ==
    LET player_state == get_player_state(e.boxes, sender)
    IN IF ~(player_state.mint_balance >= amount) THEN Revert(e)
       ELSE
       LET r == _update_staking_rewards(e, sender, player_state, now, reject)
       IN IF ~r.e.ok THEN r.e
          ELSE [r.e EXCEPT !.boxes = BoxPut(@, sender,
                  [player_state EXCEPT
                      !.mint_balance = r.value - amount,
                      !.last_stake_timestamp = now])]

\* Faulty variant of stake_mint_tokens: the accrued reward is not credited.
stake_mint_tokens_drops_reward(e, sender, amount, now, reject) ==
    LET player_state == get_player_state(e.boxes, sender)
    IN IF ~(player_state.mint_balance >= amount) THEN Revert(e)
       ELSE
       LET r == _update_staking_rewards(e, sender, player_state, now, reject)
       IN IF ~r.e.ok THEN r.e
          ELSE [r.e EXCEPT !.boxes = BoxPut(@, sender,
                  [player_state EXCEPT
                      !.mint_balance = @ - amount,
                      !.staked_mint = @ + amount,
                      !.last_stake_timestamp = now])]

\* Faulty variant of stake_mint_tokens: last_stake_timestamp is left alone.
stake_mint_tokens_keeps_timestamp(e, sender, amount, now, reject) ==
    LET player_state == get_player_state(e.boxes, sender)
    IN IF ~(player_state.mint_balance >= amount) THEN Revert(e)
       ELSE
       LET r == _update_staking_rewards(e, sender, player_state, now, reject)
       IN IF ~r.e.ok THEN r.e
          ELSE [r.e EXCEPT !.boxes = BoxPut(@, sender,
                  [player_state EXCEPT
                      !.mint_balance = r.value - amount,
                      !.staked_mint = @ + amount])]

stake_mint_tokens(e, sender, amount, now, reject) ==
    LET player_state == get_player_state(e.boxes, sender)
    IN IF ~(player_state.mint_balance >= amount) THEN Revert(e)
       ELSE
       LET r == _update_staking_rewards(e, sender, player_state, now, reject)
       IN IF ~r.e.ok THEN r.e
          ELSE IF SubUnderflows(r.value, amount) THEN Revert(r.e)
          ELSE IF AddOverflows(player_state.staked_mint, amount) THEN Revert(r.e)
          ELSE [r.e EXCEPT !.boxes = BoxPut(@, sender,
                  [player_state EXCEPT
                      !.mint_balance = r.value - amount,
                      !.staked_mint = @ + amount,
                      !.last_stake_timestamp = now])]

\* Faulty variant of unstake_mint_tokens: the accrued reward is not credited.
unstake_mint_tokens_drops_reward(e, sender, amount, now, reject) ==
    LET player_state == get_player_state(e.boxes, sender)
    IN IF ~(player_state.staked_mint >= amount) THEN Revert(e)
       ELSE
       LET r == _update_staking_rewards(e, sender, player_state, now, reject)
       IN IF ~r.e.ok THEN r.e
          ELSE [r.e EXCEPT !.boxes = BoxPut(@, sender,
                  [player_state EXCEPT
                      !.staked_mint = @ - amount,
                      !.mint_balance = @ + amount,
                      !.last_stake_timestamp = now])]

\* Faulty variant of unstake_mint_tokens: the unstaked amount is not
\* returned to mint_balance.
unstake_mint_tokens_keeps_amount(e, sender, amount, now, reject) ==
    LET player_state == get_player_state(e.boxes, sender)
    IN IF ~(player_state.staked_mint >= amount) THEN Revert(e)
       ELSE
       LET r == _update_staking_rewards(e, sender, player_state, now, reject)
       IN IF ~r.e.ok THEN r.e
          ELSE [r.e EXCEPT !.boxes = BoxPut(@, sender,
                  [player_state EXCEPT
                      !.staked_mint = @ - amount,
                      !.mint_balance = r.value,
                      !.last_stake_timestamp = now])]

unstake_mint_tokens(e, sender, amount, now, reject) ==
    LET player_state == get_player_state(e.boxes, sender)
    IN IF ~(player_state.staked_mint >= amount) THEN Revert(e)
       ELSE
       LET r == _update_staking_rewards(e, sender, player_state, now, reject)
       IN IF ~r.e.ok THEN r.e
          ELSE IF SubUnderflows(player_state.staked_mint, amount) THEN Revert(r.e)
          ELSE IF AddOverflows(r.value, amount) THEN Revert(r.e)
          ELSE [r.e EXCEPT !.boxes = BoxPut(@, sender,
                  [player_state EXCEPT
                      !.staked_mint = @ - amount,
                      !.mint_balance = r.value + amount,
                      !.last_stake_timestamp = now])]

---------------------------------------------------------------------------
(* NFT rewards.                                                            *)

award_achievement_nft(e, sender, player_address, nft_id, reject) ==
    IF ~is_oracle(e, sender) THEN Revert(e)
    ELSE
    LET player_state == get_player_state(e.boxes, player_address)
        e1 == SubmitAssetConfig(e, nft_id, reject)
        e2 == SubmitAssetTransfer(e1, nft_id, player_address, 1, reject)
    IN IF ~e2.ok THEN e2
       ELSE IF AddOverflows(player_state.nfts_owned, 1) THEN Revert(e2)
       ELSE [e2 EXCEPT !.boxes = BoxPut(@, player_address,
               [player_state EXCEPT !.nfts_owned = @ + 1])]

---------------------------------------------------------------------------
(* Swaps.                                                                  *)

\* The Tinyman path deducts the input, stores the box, submits two inner
\* transactions and then always reverts.
_tinyman_swap_logic(e, player, token_in, token_out, amount_in, reject) ==
    LET pool_app_id == IF token_in = e.gs.mint_token_asa
                       THEN e.gs.mint_algo_pool_app_id
                       ELSE e.gs.spot_mint_pool_app_id
        player_state == get_player_state(e.boxes, player)
        e1 == IF token_in = e.gs.mint_token_asa
              THEN IF ~(player_state.mint_balance >= amount_in) THEN Revert(e)
                   ELSE [e EXCEPT !.boxes = BoxPut(@, player,
                           [player_state EXCEPT !.mint_balance = @ - amount_in])]
              ELSE IF token_in = e.gs.spot_token_asa
              THEN IF ~(player_state.spot_balance >= amount_in) THEN Revert(e)
                   ELSE [e EXCEPT !.boxes = BoxPut(@, player,
                           [player_state EXCEPT !.spot_balance = @ - amount_in])]
              ELSE Revert(e)
        e2 == SubmitAssetTransfer(e1, token_in, AppAddr, amount_in, reject)
        e3 == SubmitApplicationCall(e2, pool_app_id, reject)
    IN Revert(e3)

\* Faulty variant of swap_amount_out: the price ratio is inverted.
swap_amount_out_inverted(amount_in, price_in, price_out) ==
    (amount_in * price_out) \div price_in

\* Faulty variant of swap_amount_out: the division rounds up.
swap_amount_out_rounded_up(amount_in, price_in, price_out) ==
    (amount_in * price_in + price_out - 1) \div price_out

\* amount_out = (amount_in * price(in)) // price(out)
swap_amount_out(amount_in, price_in, price_out) ==
    (amount_in * price_in) \div price_out

_simulate_swap(e, player_address, token_in, token_out, amount_in) ==
    LET player_state == get_player_state(e.boxes, player_address)
        mint_id == e.gs.mint_token_asa
        spot_id == e.gs.spot_token_asa
        spot_price == e.gs.spot_price_algo
        mint_price == e.gs.mint_price_algo
        \* Deduct input tokens: [ok, ps].
        d == IF token_in = mint_id
             THEN IF ~(player_state.mint_balance >= amount_in)
                  THEN [ok |-> FALSE, ps |-> player_state]
                  ELSE [ok |-> TRUE,
                        ps |-> [player_state EXCEPT !.mint_balance = @ - amount_in]]
             ELSE IF token_in = spot_id
             THEN IF ~(player_state.spot_balance >= amount_in)
                  THEN [ok |-> FALSE, ps |-> player_state]
                  ELSE [ok |-> TRUE,
                        ps |-> [player_state EXCEPT !.spot_balance = @ - amount_in]]
             ELSE [ok |-> FALSE, ps |-> player_state]
        \* Calculate and credit output tokens: [ok, ps].
        c == IF ~d.ok THEN d
             ELSE IF token_out = mint_id
             THEN IF token_in = spot_id
                  THEN \* SPOT -> MINT
                       IF \/ MulOverflows(amount_in, spot_price)
                          \/ DivPanics(amount_in * spot_price, mint_price)
                       THEN [ok |-> FALSE, ps |-> d.ps]
                       ELSE LET amount_out == swap_amount_out(amount_in, spot_price, mint_price)
                            IN IF AddOverflows(d.ps.mint_balance, amount_out)
                               THEN [ok |-> FALSE, ps |-> d.ps]
                               ELSE [ok |-> TRUE,
                                     ps |-> [d.ps EXCEPT !.mint_balance = @ + amount_out]]
                  ELSE [ok |-> FALSE, ps |-> d.ps]
             ELSE IF token_out = spot_id
             THEN IF token_in = mint_id
                  THEN \* MINT -> SPOT
                       IF \/ MulOverflows(amount_in, mint_price)
                          \/ DivPanics(amount_in * mint_price, spot_price)
                       THEN [ok |-> FALSE, ps |-> d.ps]
                       ELSE LET amount_out == swap_amount_out(amount_in, mint_price, spot_price)
                            IN IF AddOverflows(d.ps.spot_balance, amount_out)
                               THEN [ok |-> FALSE, ps |-> d.ps]
                               ELSE [ok |-> TRUE,
                                     ps |-> [d.ps EXCEPT !.spot_balance = @ + amount_out]]
                  ELSE [ok |-> FALSE, ps |-> d.ps]
             ELSE [ok |-> FALSE, ps |-> d.ps]
    IN IF ~c.ok THEN Revert(e)
       ELSE [e EXCEPT !.boxes = BoxPut(@, player_address, c.ps)]

swap_tokens(e, sender, token_in, token_out, amount_in, use_tinyman, reject) ==
    IF use_tinyman
    THEN _tinyman_swap_logic(e, sender, token_in, token_out, amount_in, reject)
    ELSE _simulate_swap(e, sender, token_in, token_out, amount_in)

---------------------------------------------------------------------------
(* The state machine.                                                      *)

InitialGlobals(oracle_addr) ==
    [oracle_address |-> oracle_addr,
     mint_token_asa |-> 0, spot_token_asa |-> 0,
     stake_reward_rate |-> InitialRewardRate,
     spot_price_algo |-> InitialSpotPrice,
     mint_price_algo |-> InitialMintPrice,
     tinyman_validator_app_id |-> 0,
     mint_algo_pool_app_id |-> 0,
     spot_mint_pool_app_id |-> 0,
     game_fees_treasury_algo |-> 0,
     game_fees_treasury_mint |-> 0,
     game_fees_treasury_spot |-> 0]

NoStake ==
    [op |-> "none", sender |-> NoAddr, amount |-> 0, at |-> 0, before |-> ZeroState]

NoSwap ==
    [op |-> "none", acct |-> NoAddr, token_in |-> 0, token_out |-> 0,
     amount |-> 0, before |-> ZeroState, after |-> ZeroState]

NoReceipt ==
    [op |-> "none", sender |-> NoAddr, acct |-> NoAddr, acct2 |-> NoAddr,
     token_in |-> 0, token_out |-> 0, amount |-> 0, reject |-> 0,
     ok |-> FALSE, itxns |-> << >>, prev |-> NoStake, prev_swap |-> NoSwap,
     pre |-> [boxes |-> EmptyBoxes, gs |-> InitialGlobals(NoAddr), app_algo |-> 0]]

\* The application right after deployment: created, funded by the deployer
\* and initialized by app_create; no token exists and no box.
Init ==
    /\ boxes = EmptyBoxes
    /\ gs = InitialGlobals(Creator)
    /\ app_algo = DeployFunding
    /\ latest_timestamp = 0
    /\ budget = MaxCalls
    /\ receipt = NoReceipt
    /\ last_stake = NoStake
    /\ last_swap = NoSwap

\* A deployment in use.  app_create has named the oracle; the creator has
\* created MINT (id 1) and Spot (id 2); p1 has deposited algo, MINT and Spot (deposit_algo, deposit_asa)
\* and staked part of the MINT at time ts (stake_mint_tokens); p2 has
\* deposited and staked at time 0; the block timestamp is t0 >= ts.
InUse(oracle, algo, mint, spot, staked, ts, t0) ==
    /\ boxes = [a \in Addr |->
                 IF a = "p1"
                 THEN [ZeroState EXCEPT !.algo_balance = algo,
                                        !.mint_balance = mint,
                                        !.spot_balance = spot,
                                        !.staked_mint = staked,
                                        !.last_stake_timestamp = ts]
                 ELSE [ZeroState EXCEPT !.algo_balance = 1,
                                        !.mint_balance = 1,
                                        !.spot_balance = 1,
                                        !.staked_mint = 1]]
    /\ gs = [InitialGlobals(oracle) EXCEPT !.mint_token_asa = 1,
                                           !.spot_token_asa = 2]
    /\ app_algo = DeployFunding + algo + 1
    /\ latest_timestamp = t0
    /\ receipt = NoReceipt
    /\ last_stake = NoStake
    /\ last_swap = NoSwap

InitInUse ==
    /\ \E oracle \in Addr, mint \in 0..MaxBalance, spot \in {0, 10},
          staked \in 0..MaxBalance, ts \in {0, TimeStep}, t0 \in {0, TimeStep} :
          ts <= t0 /\ InUse(oracle, 1, mint, spot, staked, ts, t0)
    /\ budget = 1

InitStaking ==
    /\ \E mint \in 0..MaxBalance, staked \in 0..MaxBalance,
          ts \in {0, TimeStep}, t0 \in {0, TimeStep} :
          ts <= t0 /\ InUse(Creator, 0, mint, 0, staked, ts, t0)
    /\ budget = 2

InitSwap ==
    /\ \E mint \in 0..MaxBalance, spot \in {0, 10, 15} :
          InUse(Creator, 0, mint, spot, 0, 0, 0)
    /\ budget = 2

\* One application call: evaluate the method, apply its outcome, keep the
\* receipt.
Call(op, sender, acct, acct2, token_in, token_out, amount, reject, e) ==
    /\ receipt.op = "none"
    /\ budget > 0
    /\ LET out == Outcome(Start, e)
       IN /\ boxes' = out.boxes
          /\ gs' = out.gs
          /\ app_algo' = out.app_algo
          /\ receipt' = [op |-> op, sender |-> sender, acct |-> acct,
                         acct2 |-> acct2, token_in |-> token_in,
                         token_out |-> token_out, amount |-> amount,
                         reject |-> reject, ok |-> out.ok, itxns |-> out.itxns,
                         prev |-> last_stake, prev_swap |-> last_swap,
                         pre |-> [boxes |-> boxes, gs |-> gs, app_algo |-> app_algo]]
          /\ last_stake' = IF op \in {"stake_mint_tokens", "unstake_mint_tokens"} /\ out.ok
                           THEN [op |-> op, sender |-> sender, amount |-> amount,
                                 at |-> latest_timestamp,
                                 before |-> get_player_state(boxes, sender)]
                           ELSE NoStake
          /\ last_swap' = IF op \in {"swap_tokens", "_simulate_swap"} /\ out.ok
                          THEN [op |-> op, acct |-> acct, token_in |-> token_in,
                                token_out |-> token_out, amount |-> amount,
                                before |-> get_player_state(boxes, acct),
                                after |-> get_player_state(out.boxes, acct)]
                          ELSE NoSwap
    /\ budget' = budget - 1
    /\ UNCHANGED latest_timestamp

AppCreate ==
    \E sender \in Addr, oracle_addr \in Addr :
        Call("app_create", sender, oracle_addr, NoAddr, 0, 0, 0, 0,
             app_create(Start, oracle_addr, 0, 0, 0))

CreateMintToken ==
    \E sender \in Addr, new_id \in AssetIds \ {gs.spot_token_asa}, reject \in 0..1 :
        Call("create_mint_token", sender, NoAddr, NoAddr, new_id, 0, 0, reject,
             create_mint_token(Start, sender, new_id, reject))

CreateSpotToken ==
    \E sender \in Addr, new_id \in AssetIds \ {gs.mint_token_asa}, reject \in 0..1 :
        Call("create_spot_token", sender, NoAddr, NoAddr, new_id, 0, 0, reject,
             create_spot_token(Start, sender, new_id, reject))

DepositAlgo ==
    \E sender \in Addr, pay_receiver \in Receivers, amount \in Amounts :
        Call("deposit_algo", sender, pay_receiver, NoAddr, 0, 0, amount, 0,
             deposit_algo(GroupPayment(Start, pay_receiver, amount),
                          sender, pay_receiver, amount))

\* A group that is not a valid deposit is tried with one amount only.
DepositAsa ==
    \E sender \in Addr, pay_receiver \in Receivers, amount \in Amounts,
       token_id \in TokenIds \cup NftIds, pay_asset \in AssetIds \cup NftIds :
        /\ (pay_receiver = AppAddr /\ pay_asset = token_id) \/ amount = MaxAmount
        /\ Call("deposit_asa", sender, pay_receiver, NoAddr, pay_asset, token_id,
                amount, 0,
                deposit_asa(Start, sender, pay_receiver, pay_asset, amount, token_id))

WithdrawAlgo ==
    \E sender \in Addr, amount \in Amounts, reject \in 0..1 :
        Call("withdraw_algo", sender, NoAddr, NoAddr, 0, 0, amount, reject,
             withdraw_algo(Start, sender, amount, reject))

JoinGame ==
    \E sender \in Addr :
        Call("join_game", sender, NoAddr, NoAddr, 0, 0, 1, 0,
             join_game(Start, sender, 0, 1, 0))

ResolveGame ==
    \E sender \in Addr, winner \in Addr, loser \in Addr, prize_algo \in Prizes,
       reject \in 0..2 :
        Call("resolve_game", sender, winner, loser, 0, 0, prize_algo, reject,
             resolve_game(Start, sender, 0, winner, loser, prize_algo, reject))

\* _update_staking_rewards is an ABI method: anybody can call it with a
\* PlayerState of his choosing.
UpdateStakingRewards ==
    \E sender \in Addr, player_address \in Addr, staked \in {0, MaxAmount},
       reject \in 0..1 :
        Call("_update_staking_rewards", sender, player_address, NoAddr, 0, 0,
             staked, reject,
             _update_staking_rewards(Start, player_address,
                 [ZeroState EXCEPT !.staked_mint = staked],
                 latest_timestamp, reject).e)

StakeMintTokens ==
    \E sender \in Addr, amount \in Amounts, reject \in 0..1 :
        Call("stake_mint_tokens", sender, NoAddr, NoAddr, 0, 0, amount, reject,
             stake_mint_tokens(Start, sender, amount, latest_timestamp, reject))

UnstakeMintTokens ==
    \E sender \in Addr, amount \in Amounts, reject \in 0..1 :
        Call("unstake_mint_tokens", sender, NoAddr, NoAddr, 0, 0, amount, reject,
             unstake_mint_tokens(Start, sender, amount, latest_timestamp, reject))

AwardAchievementNft ==
    \E sender \in Addr, player_address \in Addr, nft_id \in NftIds, reject \in 0..2 :
        Call("award_achievement_nft", sender, player_address, NoAddr, 0, 0, 0, reject,
             award_achievement_nft(Start, sender, player_address, nft_id, reject))

\* _tinyman_swap_logic and _simulate_swap are ABI methods too: anybody can
\* call them for any player_address.
TinymanSwapLogic ==
    \E sender \in Addr, player \in Addr, token_in \in TokenIds :
        Call("_tinyman_swap_logic", sender, player, NoAddr, token_in, 0, 1, 0,
             _tinyman_swap_logic(Start, player, token_in, 0, 1, 0))

SimulateSwap ==
    \E sender \in Addr, player_address \in Addr, token_in \in TokenIds,
       token_out \in TokenIds, amount_in \in SwapAmounts :
        /\ player_address # sender
        /\ Call("_simulate_swap", sender, player_address, NoAddr, token_in, token_out,
                amount_in, 0,
                _simulate_swap(Start, player_address, token_in, token_out, amount_in))

SwapTokens ==
    \E sender \in Addr, token_in \in TokenIds, token_out \in TokenIds,
       amount_in \in SwapAmounts :
        Call("swap_tokens", sender, sender, NoAddr, token_in, token_out, amount_in, 0,
             swap_tokens(Start, sender, token_in, token_out, amount_in, FALSE, 0))

SwapTokensTinyman ==
    \E sender \in Addr, token_in \in TokenIds, reject \in 0..2 :
        Call("swap_tokens_tinyman", sender, sender, NoAddr, token_in, 0, 1, reject,
             swap_tokens(Start, sender, token_in, 0, 1, TRUE, reject))

\* The caller has seen the result; the next call can be evaluated.
Confirm ==
    /\ receipt.op # "none"
    /\ receipt' = NoReceipt
    /\ UNCHANGED <<boxes, gs, app_algo, latest_timestamp, budget, last_stake, last_swap>>

\* A later block: Global.latest_timestamp() never decreases.
Tick ==
    /\ receipt.op = "none"
    /\ budget > 0
    /\ \E t \in Times : t > latest_timestamp /\ latest_timestamp' = t
    /\ UNCHANGED <<boxes, gs, app_algo, budget, receipt, last_stake, last_swap>>

Next ==
    \/ AppCreate
    \/ CreateMintToken
    \/ CreateSpotToken
    \/ DepositAlgo
    \/ DepositAsa
    \/ WithdrawAlgo
    \/ JoinGame
    \/ ResolveGame
    \/ UpdateStakingRewards
    \/ StakeMintTokens
    \/ UnstakeMintTokens
    \/ AwardAchievementNft
    \/ TinymanSwapLogic
    \/ SimulateSwap
    \/ SwapTokens
    \/ SwapTokensTinyman
    \/ Confirm
    \/ Tick

NextStaking ==
    \/ StakeMintTokens
    \/ UnstakeMintTokens
    \/ Confirm
    \/ Tick

NextSwap ==
    \/ SimulateSwap
    \/ SwapTokens
    \/ Confirm

Spec == Init /\ [][Next]_vars

SpecInUse == InitInUse /\ [][Next]_vars

SpecStaking == InitStaking /\ [][NextStaking]_vars

SpecSwap == InitSwap /\ [][NextSwap]_vars

---------------------------------------------------------------------------
(* The claims.                                                             *)

\* The record of account a before and after the call in receipt.
PreState(a) == get_player_state(receipt.pre.boxes, a)
PostState(a) == get_player_state(boxes, a)

StakingOps == {"stake_mint_tokens", "unstake_mint_tokens"}
SwapOps == {"swap_tokens", "_simulate_swap"}

\* The reward the specification's accrue(state, now) gives.
AccruedReward(ps, rate, now) ==
    IF ps.staked_mint > 0 /\ now > ps.last_stake_timestamp
    THEN (ps.staked_mint * rate * (now - ps.last_stake_timestamp)) \div 1000000
    ELSE 0

\* The MINT the call in receipt credited besides moving receipt.amount
\* between balance and stake.
CreditedReward ==
    PostState(receipt.sender).mint_balance - PreState(receipt.sender).mint_balance
        + (IF receipt.op = "stake_mint_tokens" THEN receipt.amount ELSE 0 - receipt.amount)

\* C1: every balance field of every PlayerState and the treasury's native
\* accumulator stay within 0..UInt64Max, and a call that asks to take more
\* than a balance holds fails instead of wrapping or clamping.
C1_NonNegativeBalances ==
    /\ \A a \in DOMAIN boxes :
          /\ boxes[a].algo_balance \in 0..UInt64Max
          /\ boxes[a].mint_balance \in 0..UInt64Max
          /\ boxes[a].spot_balance \in 0..UInt64Max
          /\ boxes[a].staked_mint \in 0..UInt64Max
          /\ boxes[a].staked_spot \in 0..UInt64Max
    /\ gs.game_fees_treasury_algo \in 0..UInt64Max
    /\ (receipt.op = "withdraw_algo"
          /\ receipt.amount > PreState(receipt.sender).algo_balance) => ~receipt.ok
    /\ (receipt.op = "stake_mint_tokens"
          /\ receipt.amount > PreState(receipt.sender).mint_balance) => ~receipt.ok
    /\ (receipt.op = "unstake_mint_tokens"
          /\ receipt.amount > PreState(receipt.sender).staked_mint) => ~receipt.ok
    /\ (receipt.op \in SwapOps
          /\ receipt.token_in = receipt.pre.gs.mint_token_asa
          /\ receipt.amount > PreState(receipt.acct).mint_balance) => ~receipt.ok
    /\ (receipt.op \in SwapOps
          /\ receipt.token_in # receipt.pre.gs.mint_token_asa
          /\ receipt.token_in = receipt.pre.gs.spot_token_asa
          /\ receipt.amount > PreState(receipt.acct).spot_balance) => ~receipt.ok

\* An unstake that takes the whole stake: the stake ends at exactly 0.
C1_Witness ==
    /\ receipt.op = "unstake_mint_tokens" /\ receipt.ok /\ receipt.amount > 0
    /\ PostState(receipt.sender).staked_mint = 0

C3_WithdrawPaysExactlyAmount ==
    receipt.op = "withdraw_algo" =>
        LET p == PreState(receipt.sender)
        IN /\ (p.algo_balance < receipt.amount) => ~receipt.ok
           /\ receipt.ok =>
                /\ PostState(receipt.sender) =
                       [p EXCEPT !.algo_balance = @ - receipt.amount]
                /\ Len(receipt.itxns) = 1
                /\ receipt.itxns[1].type = "pay"
                /\ receipt.itxns[1].receiver = receipt.sender
                /\ receipt.itxns[1].amount = receipt.amount
                /\ receipt.pre.app_algo - app_algo = receipt.amount

\* C4: stake_mint_tokens fails when the MINT balance before accrual is less
\* than amount; a successful one leaves the record with mint_balance = old +
\* R - amount, staked_mint = old + amount, last_stake_timestamp = now and
\* every other field as it was, R being the accrued reward of the old record.
C4_StakeContract ==
    receipt.op = "stake_mint_tokens" =>
        LET p == PreState(receipt.sender)
        IN /\ (p.mint_balance < receipt.amount) => ~receipt.ok
           /\ receipt.ok =>
                PostState(receipt.sender) =
                    [p EXCEPT
                       !.mint_balance = @ - receipt.amount
                           + AccruedReward(p, receipt.pre.gs.stake_reward_rate,
                                           latest_timestamp),
                       !.staked_mint = @ + receipt.amount,
                       !.last_stake_timestamp = latest_timestamp]

\* A stake of a positive amount that also accrues a positive reward.
C4_Witness ==
    /\ receipt.op = "stake_mint_tokens" /\ receipt.ok /\ receipt.amount > 0
    /\ AccruedReward(PreState(receipt.sender), receipt.pre.gs.stake_reward_rate,
                     latest_timestamp) > 0

\* The specification's scenario: balance 400, stake 600 staked at time 0,
\* rate 1, unstake 100 at now = 1_000_000.
UnstakeScenario ==
    unstake_mint_tokens(
        [ok |-> TRUE,
         boxes |-> [a \in {"p1"} |-> [ZeroState EXCEPT !.mint_balance = 400,
                                                       !.staked_mint = 600]],
         gs |-> [InitialGlobals(Creator) EXCEPT !.mint_token_asa = 1],
         app_algo |-> DeployFunding, itxns |-> << >>],
        "p1", 100, 1000000, 0)

\* C5: unstake_mint_tokens fails when staked_mint < amount; a successful one
\* leaves the record with staked_mint = old - amount, mint_balance = old + R
\* + amount, last_stake_timestamp = now and every other field as it was; the
\* scenario gives balance 1100 and stake 500.
C5_UnstakeContract ==
    /\ receipt.op = "unstake_mint_tokens" =>
        LET p == PreState(receipt.sender)
        IN /\ (p.staked_mint < receipt.amount) => ~receipt.ok
           /\ receipt.ok =>
                PostState(receipt.sender) =
                    [p EXCEPT
                       !.staked_mint = @ - receipt.amount,
                       !.mint_balance = @ + receipt.amount
                           + AccruedReward(p, receipt.pre.gs.stake_reward_rate,
                                           latest_timestamp),
                       !.last_stake_timestamp = latest_timestamp]
    /\ UnstakeScenario.ok
    /\ UnstakeScenario.boxes["p1"].mint_balance = 1100
    /\ UnstakeScenario.boxes["p1"].staked_mint = 500

\* An unstake of a positive amount that also accrues a positive reward.
C5_Witness ==
    /\ receipt.op = "unstake_mint_tokens" /\ receipt.ok /\ receipt.amount > 0
    /\ AccruedReward(PreState(receipt.sender), receipt.pre.gs.stake_reward_rate,
                     latest_timestamp) > 0

\* C6: the reward a successful stake or unstake credits is
\* floor(staked_mint * rate * (now - last_stake_timestamp) / 1_000_000) when
\* staked_mint > 0 and now > last_stake_timestamp; in every other case the
\* accrual credits 0, submits nothing and cannot make the call fail.
C6_AccrualFormula ==
    receipt.op \in StakingOps =>
        LET p == PreState(receipt.sender)
            eligible == p.staked_mint > 0 /\ latest_timestamp > p.last_stake_timestamp
            guard == IF receipt.op = "stake_mint_tokens"
                     THEN p.mint_balance >= receipt.amount
                     ELSE p.staked_mint >= receipt.amount
        IN /\ (receipt.ok /\ eligible) =>
                 CreditedReward =
                     (p.staked_mint * receipt.pre.gs.stake_reward_rate
                        * (latest_timestamp - p.last_stake_timestamp)) \div 1000000
           /\ ~eligible =>
                 /\ receipt.ok <=> guard
                 /\ receipt.itxns = << >>
                 /\ receipt.ok => CreditedReward = 0

\* A positive reward whose division by 1_000_000 leaves a remainder, on a
\* record that was staked at a time after 0.
C6_Witness ==
    /\ receipt.op \in StakingOps /\ receipt.ok
    /\ CreditedReward > 0
    /\ PreState(receipt.sender).last_stake_timestamp > 0
    /\ (PreState(receipt.sender).staked_mint * receipt.pre.gs.stake_reward_rate
          * (latest_timestamp - PreState(receipt.sender).last_stake_timestamp))
         % 1000000 # 0

\* The call in receipt follows a successful stake or unstake of the same
\* account in the same block.
FollowsStakingAtSameTime ==
    /\ receipt.op \in StakingOps
    /\ receipt.prev.op \in StakingOps
    /\ receipt.prev.sender = receipt.sender
    /\ receipt.prev.at = latest_timestamp

\* C7: a successful stake or unstake at time now sets last_stake_timestamp
\* = now, and a further stake or unstake of the same account at the same
\* now credits no reward.
C7_IdempotentAccrual ==
    /\ (receipt.op \in StakingOps /\ receipt.ok) =>
           PostState(receipt.sender).last_stake_timestamp = latest_timestamp
    /\ (FollowsStakingAtSameTime /\ receipt.ok) =>
           /\ CreditedReward = 0
           /\ receipt.itxns = << >>

\* The second call finds a stake in place, at a time later than the
\* timestamp the first call found.
C7_Witness ==
    /\ FollowsStakingAtSameTime /\ receipt.ok
    /\ PreState(receipt.sender).staked_mint > 0
    /\ receipt.prev.before.last_stake_timestamp < latest_timestamp
    /\ receipt.prev.before.staked_mint > 0

\* The call in receipt is an unstake of amount that follows a successful
\* stake of the same amount by the same account in the same block.
RoundTrip ==
    /\ receipt.op = "unstake_mint_tokens"
    /\ receipt.prev.op = "stake_mint_tokens"
    /\ receipt.prev.sender = receipt.sender
    /\ receipt.prev.amount = receipt.amount
    /\ receipt.prev.at = latest_timestamp

\* C8 as claimed: the round trip returns mint_balance to its value before
\* the stake and staked_mint to 0, for any account.
C8_RoundTripAsClaimed ==
    RoundTrip =>
        /\ receipt.ok
        /\ PostState(receipt.sender).mint_balance = receipt.prev.before.mint_balance
        /\ PostState(receipt.sender).staked_mint = 0

\* C8 amended: the round trip returns staked_mint to its value before the
\* stake and mint_balance to its value before the stake plus the reward the
\* stake accrued; for an account with nothing staked before, that is the
\* balance before the stake and a stake of 0.
C8_RoundTrip ==
    RoundTrip =>
        LET b == receipt.prev.before
        IN /\ receipt.ok
           /\ PostState(receipt.sender).staked_mint = b.staked_mint
           /\ PostState(receipt.sender).mint_balance =
                  b.mint_balance
                    + AccruedReward(b, receipt.pre.gs.stake_reward_rate, receipt.prev.at)
           /\ b.staked_mint = 0 =>
                  /\ PostState(receipt.sender).mint_balance = b.mint_balance
                  /\ PostState(receipt.sender).staked_mint = 0

\* A round trip of a positive amount by an account with nothing staked
\* before, at a time after 0.
C8_Witness ==
    /\ RoundTrip /\ receipt.ok /\ receipt.amount > 0
    /\ receipt.prev.before.staked_mint = 0
    /\ latest_timestamp > 0

\* The call in receipt is a swap between the two configured tokens.
SwapOfPair ==
    /\ receipt.op \in SwapOps
    /\ receipt.token_in # receipt.token_out
    /\ {receipt.token_in, receipt.token_out}
          \subseteq {receipt.pre.gs.mint_token_asa, receipt.pre.gs.spot_token_asa}

\* C9: a swap between the two tokens fails when the input balance is less
\* than amount_in; a successful one takes exactly amount_in off the input
\* balance, adds floor(amount_in * price(in) / price(out)) to the output
\* balance and changes nothing else: no other field, no other account, no
\* global value, and it submits no inner transaction.
C9_SwapContract ==
    SwapOfPair =>
        LET g == receipt.pre.gs
            p == PreState(receipt.acct)
            from_mint == receipt.token_in = g.mint_token_asa
            balance_in == IF from_mint THEN p.mint_balance ELSE p.spot_balance
            price_in == IF from_mint THEN g.mint_price_algo ELSE g.spot_price_algo
            price_out == IF from_mint THEN g.spot_price_algo ELSE g.mint_price_algo
            amount_out == (receipt.amount * price_in) \div price_out
        IN /\ (balance_in < receipt.amount) => ~receipt.ok
           /\ receipt.ok =>
                /\ PostState(receipt.acct) =
                     IF from_mint
                     THEN [p EXCEPT !.mint_balance = @ - receipt.amount,
                                    !.spot_balance = @ + amount_out]
                     ELSE [p EXCEPT !.spot_balance = @ - receipt.amount,
                                    !.mint_balance = @ + amount_out]
                /\ \A a \in Addr \ {receipt.acct} :
                      /\ (a \in DOMAIN boxes) = (a \in DOMAIN receipt.pre.boxes)
                      /\ PostState(a) = PreState(a)
                /\ gs = g
                /\ app_algo = receipt.pre.app_algo
                /\ receipt.itxns = << >>

\* A successful swap of Spot into a positive amount of MINT.
C9_Witness ==
    /\ SwapOfPair /\ receipt.ok
    /\ receipt.token_in = receipt.pre.gs.spot_token_asa
    /\ PostState(receipt.acct).mint_balance > PreState(receipt.acct).mint_balance

\* C10: a swap whose token_in or token_out is neither of the two tokens, or
\* whose token_in equals its token_out, fails and leaves the boxes as they
\* were.
C10_UnsupportedPairFails ==
    (/\ receipt.op \in SwapOps
     /\ \/ receipt.token_in = receipt.token_out
        \/ receipt.token_in \notin
              {receipt.pre.gs.mint_token_asa, receipt.pre.gs.spot_token_asa}
        \/ receipt.token_out \notin
              {receipt.pre.gs.mint_token_asa, receipt.pre.gs.spot_token_asa})
    => (~receipt.ok /\ boxes = receipt.pre.boxes)

\* The balance a record holds of a token, MINT or Spot.
TokenBalance(ps, token) ==
    IF token = receipt.pre.gs.mint_token_asa THEN ps.mint_balance ELSE ps.spot_balance

\* The call in receipt is a successful swap that follows a successful swap
\* of the same account between the two tokens and swaps back exactly what
\* that swap gave.
InverseSwap ==
    /\ SwapOfPair /\ receipt.ok
    /\ receipt.prev_swap.op \in SwapOps
    /\ receipt.prev_swap.acct = receipt.acct
    /\ receipt.prev_swap.token_in = receipt.token_out
    /\ receipt.prev_swap.token_out = receipt.token_in
    /\ receipt.amount =
          TokenBalance(receipt.prev_swap.after, receipt.token_in)
            - TokenBalance(receipt.prev_swap.before, receipt.token_in)

\* What the swap back gave of the token the round trip started from.
SwapBackYield ==
    TokenBalance(PostState(receipt.acct), receipt.token_out)
      - TokenBalance(PreState(receipt.acct), receipt.token_out)

\* C11: with prices unchanged, swapping x of one token into the other and
\* the whole received amount back yields at most x: the account ends with
\* at most its first balance of the token it started from and with exactly
\* its first balance of the other token.
C11_SwapRoundTripNeverProfits ==
    InverseSwap =>
        /\ receipt.pre.gs.spot_price_algo = gs.spot_price_algo
        /\ receipt.pre.gs.mint_price_algo = gs.mint_price_algo
        /\ SwapBackYield <= receipt.prev_swap.amount
        /\ TokenBalance(PostState(receipt.acct), receipt.token_out)
             <= TokenBalance(receipt.prev_swap.before, receipt.token_out)
        /\ TokenBalance(PostState(receipt.acct), receipt.token_in)
             = TokenBalance(receipt.prev_swap.before, receipt.token_in)

\* A round trip that loses value to the floor division: 15 Spot buy 1 MINT,
\* which buys back 10 Spot.
C11_Witness ==
    /\ InverseSwap
    /\ SwapBackYield > 0
    /\ SwapBackYield < receipt.prev_swap.amount

\* C12: resolve_game and award_achievement_nft called by anybody but the
\* configured oracle fail: no box, no global value and no balance of the
\* application changes and no inner transaction is submitted.
C12_OnlyOracle ==
    (/\ receipt.op \in {"resolve_game", "award_achievement_nft"}
     /\ receipt.sender # receipt.pre.gs.oracle_address)
    => /\ ~receipt.ok
       /\ boxes = receipt.pre.boxes
       /\ gs = receipt.pre.gs
       /\ app_algo = receipt.pre.app_algo
       /\ receipt.itxns = << >>

\* The creator, who is not the oracle, calls resolve_game with a prize the
\* application could pay and no inner transaction rejected.
C12_Witness ==
    /\ receipt.op = "resolve_game" /\ ~receipt.ok
    /\ receipt.sender = Creator
    /\ receipt.sender # receipt.pre.gs.oracle_address
    /\ receipt.reject = 0
    /\ receipt.pre.app_algo >= receipt.amount

\* The specification's scenario: prize 1000 at Spot price 1000, treasury 0.
ResolveScenario ==
    resolve_game(
        [ok |-> TRUE, boxes |-> EmptyBoxes,
         gs |-> [InitialGlobals(Creator) EXCEPT !.mint_token_asa = 1,
                                                !.spot_token_asa = 2],
         app_algo |-> DeployFunding, itxns |-> << >>],
        Creator, 0, "p1", "p2", 1000, 0)

\* C13: a successful resolve_game adds exactly
\* floor(prize_algo * 1000 / spot_price_algo) to the winner's spot_balance,
\* also when winner and loser are the same account; the scenario credits
\* 1000.
C13_WinnerCredit ==
    /\ (receipt.op = "resolve_game" /\ receipt.ok) =>
          PostState(receipt.acct).spot_balance =
              PreState(receipt.acct).spot_balance
                + (receipt.amount * 1000) \div receipt.pre.gs.spot_price_algo
    /\ ResolveScenario.ok
    /\ ResolveScenario.boxes["p1"].spot_balance = 1000

\* A game resolved with the same account as winner and loser.
C13_Witness ==
    /\ receipt.op = "resolve_game" /\ receipt.ok
    /\ receipt.acct = receipt.acct2
    /\ PostState(receipt.acct).spot_balance > PreState(receipt.acct).spot_balance

\* C14: a successful resolve_game adds exactly
\* floor(prize_algo * 1000 / mint_price_algo) to the mint_balance of the
\* loser's PlayerState.
C14_LoserCredit ==
    (receipt.op = "resolve_game" /\ receipt.ok) =>
        PostState(receipt.acct2).mint_balance =
            PreState(receipt.acct2).mint_balance
              + (receipt.amount * 1000) \div receipt.pre.gs.mint_price_algo

\* C15: a successful resolve_game adds exactly floor(prize_algo / 10) to
\* game_fees_treasury_algo and leaves every other global value as it was;
\* the scenario books a fee of 100.
C15_TreasuryFee ==
    /\ (receipt.op = "resolve_game" /\ receipt.ok) =>
          gs = [receipt.pre.gs EXCEPT
                  !.game_fees_treasury_algo = @ + receipt.amount \div 10]
    /\ ResolveScenario.gs.game_fees_treasury_algo = 100

\* A resolved game whose fee is not 0.
C15_Witness ==
    /\ receipt.op = "resolve_game" /\ receipt.ok
    /\ gs.game_fees_treasury_algo > receipt.pre.gs.game_fees_treasury_algo

\* C16: resolve_game fails, changing nothing, when game_fees_treasury_algo
\* is less than the prize it is asked to pay.
C16_TreasuryCoversPrize ==
    (/\ receipt.op = "resolve_game"
     /\ receipt.pre.gs.game_fees_treasury_algo < receipt.amount)
    => /\ ~receipt.ok
       /\ boxes = receipt.pre.boxes
       /\ gs = receipt.pre.gs

\* C17: deposit_asa fails, changing nothing, when token_id is neither the
\* MINT id nor the Spot id; a successful deposit adds the amount to exactly
\* the balance of that token and leaves every other field, account and
\* global value as it was; a transfer of a known token to the application
\* is accepted.
C17_DepositToken ==
    receipt.op = "deposit_asa" =>
        LET g == receipt.pre.gs
            p == PreState(receipt.sender)
            token_id == receipt.token_out
            known == token_id \in {g.mint_token_asa, g.spot_token_asa}
        IN /\ ~known =>
                /\ ~receipt.ok
                /\ boxes = receipt.pre.boxes
                /\ gs = g
           /\ (known /\ receipt.acct = AppAddr /\ receipt.token_in = token_id)
                => receipt.ok
           /\ receipt.ok =>
                /\ PostState(receipt.sender) =
                     IF token_id = g.mint_token_asa
                     THEN [p EXCEPT !.mint_balance = @ + receipt.amount]
                     ELSE [p EXCEPT !.spot_balance = @ + receipt.amount]
                /\ \A a \in Addr \ {receipt.sender} : PostState(a) = PreState(a)
                /\ gs = g

\* A deposit of a positive amount of Spot.
C17_Witness ==
    /\ receipt.op = "deposit_asa" /\ receipt.ok /\ receipt.amount > 0
    /\ receipt.token_out = receipt.pre.gs.spot_token_asa

\* The refusal of a third asset sent to the application under its own id.
C17_UnknownTokenRefused ==
    /\ receipt.op = "deposit_asa" /\ ~receipt.ok
    /\ receipt.acct = AppAddr
    /\ receipt.token_in = receipt.token_out
    /\ receipt.token_out \notin
          {receipt.pre.gs.mint_token_asa, receipt.pre.gs.spot_token_asa}

\* C18: a successful call by an account that is neither the creator nor the
\* oracle leaves every global value (oracle, token ids, prices, reward
\* rate, treasuries) as it was.
C18_ConfigWrittenByAdminOnly ==
    (/\ receipt.op # "none"
     /\ receipt.sender \notin {Creator, receipt.pre.gs.oracle_address})
    => gs = receipt.pre.gs

\* What every call leaves alone: staked_mint and last_stake_timestamp of
\* every account but a staking call's sender.
StakeFieldsKept ==
    \A a \in Addr :
        (receipt.op \in StakingOps /\ a = receipt.sender)
        \/ /\ PostState(a).staked_mint = PreState(a).staked_mint
           /\ PostState(a).last_stake_timestamp = PreState(a).last_stake_timestamp

\* C19 as claimed: every successful stake leaves staked_mint > 0, a
\* successful unstake starts from staked_mint > 0 and ends Unstaked exactly
\* when it takes the whole stake, and no other operation changes
\* staked_mint or last_stake_timestamp.
C19_StateMachineAsClaimed ==
    /\ (receipt.op = "stake_mint_tokens" /\ receipt.ok) =>
          PostState(receipt.sender).staked_mint > 0
    /\ (receipt.op = "unstake_mint_tokens" /\ receipt.ok) =>
          /\ PreState(receipt.sender).staked_mint > 0
          /\ (PostState(receipt.sender).staked_mint = 0)
                <=> (PreState(receipt.sender).staked_mint = receipt.amount)
    /\ receipt.op # "none" => StakeFieldsKept

\* C19 amended: a successful stake of a positive amount, or on an account
\* that holds a stake, leaves staked_mint > 0, while a stake of 0 on an
\* account without a stake leaves it at 0; a successful unstake of a
\* positive amount starts from staked_mint > 0, and any successful unstake
\* ends Unstaked exactly when it takes the whole stake; no other operation
\* changes staked_mint or last_stake_timestamp.
C19_StateMachine ==
    /\ (receipt.op = "stake_mint_tokens" /\ receipt.ok) =>
          (PostState(receipt.sender).staked_mint > 0)
             <=> (receipt.amount > 0 \/ PreState(receipt.sender).staked_mint > 0)
    /\ (receipt.op = "unstake_mint_tokens" /\ receipt.ok) =>
          /\ receipt.amount > 0 => PreState(receipt.sender).staked_mint > 0
          /\ (PostState(receipt.sender).staked_mint = 0)
                <=> (PreState(receipt.sender).staked_mint = receipt.amount)
    /\ receipt.op # "none" => StakeFieldsKept

\* An account without a stake stakes a positive amount: Unstaked -> Staked.
C19_Witness ==
    /\ receipt.op = "stake_mint_tokens" /\ receipt.ok /\ receipt.amount > 0
    /\ PreState(receipt.sender).staked_mint = 0
    /\ PostState(receipt.sender).staked_mint > 0

\* C20: an unstake of no more than the stake, at a time not before
\* last_stake_timestamp and with no inner transaction rejected by the
\* host, succeeds.
C20_UnstakeAlwaysSucceeds ==
    (/\ receipt.op = "unstake_mint_tokens"
     /\ receipt.reject = 0
     /\ receipt.amount <= PreState(receipt.sender).staked_mint
     /\ latest_timestamp >= PreState(receipt.sender).last_stake_timestamp)
    => receipt.ok

RECURSIVE MintSentTo(_, _, _)
\* The MINT the inner transactions its[1..n] transfer to account a.
MintSentTo(its, n, a) ==
    IF n = 0 THEN 0
    ELSE MintSentTo(its, n - 1, a)
           + (IF /\ its[n].type = "axfer"
                 /\ its[n].receiver = a
                 /\ its[n].asset_id = receipt.pre.gs.mint_token_asa
              THEN its[n].amount ELSE 0)

\* C21: a successful stake or unstake that accrues reward R credits R to
\* the sender's mint_balance and submits no asset transfer of a positive
\* amount to the sender,
\* so the MINT the sender obtains from the accrual, in the ledger and
\* outside it, is R.
C21_RewardPaidOnce ==
    (receipt.op \in StakingOps /\ receipt.ok) =>
        LET R == AccruedReward(PreState(receipt.sender),
                               receipt.pre.gs.stake_reward_rate, latest_timestamp)
        IN /\ CreditedReward = R
           /\ \A i \in 1..Len(receipt.itxns) :
                 ~(receipt.itxns[i].type = "axfer"
                     /\ receipt.itxns[i].receiver = receipt.sender
                     /\ receipt.itxns[i].amount > 0)
           /\ CreditedReward
                + MintSentTo(receipt.itxns, Len(receipt.itxns), receipt.sender) = R

RECURSIVE SumAlgo(_, _)
\* The sum of algo_balance over the boxes of the accounts in S.
SumAlgo(bx, S) ==
    IF S = {} THEN 0
    ELSE LET a == CHOOSE x \in S : TRUE
         IN bx[a].algo_balance + SumAlgo(bx, S \ {a})

\* C22: the microALGO the application account holds are at least the sum
\* of all players' algo_balance, so every player can withdraw his whole
\* recorded balance.
C22_LedgerSolvent ==
    app_algo >= SumAlgo(boxes, DOMAIN boxes)

====
